---- MODULE Spec2Model ----
(***************************************************************************)
(* Model of plugins/modules/query.py (module prometheus_query): main()     *)
(* issues one instant query per entry of `queries`, stores the latest      *)
(* sample of each in metrics_data and reports through exit_json/fail_json. *)
(* Strings the code transforms (queries, samples) are sequences of         *)
(* one-character strings; a float is held in tenths (1.5 is 15).           *)
(***************************************************************************)
EXTENDS Integers, Sequences, FiniteSets, TLC

VARIABLES
  prometheus_url,   \* module.params['prometheus_url']
  queries,          \* module.params['queries']
  pc,               \* "start", "loop", "wait", "succeeded", "failed"; "sanitize" outside main()
  i,                \* position of the for loop in queries (0-based)
  clock,            \* time.time(), in seconds
  end_time,         \* the timestamp main() computes once
  metrics_data,     \* the dict main() fills: key -> value
  sent,             \* the GETs issued so far, in order
  received,         \* what each GET met, in order
  exit_json_calls,  \* arguments of every module.exit_json call
  fail_json_calls,  \* arguments of every module.fail_json call
  san_arg,          \* argument of a direct call of sanitize_query
  san_ret           \* <<its result>> once it returned

vars == << prometheus_url, queries, pc, i, clock, end_time, metrics_data, sent,
           received, exit_json_calls, fail_json_calls, san_arg, san_ret >>

\* ---------------------------------------------------------------- bounds
MaxQueries == 2        \* longest `queries` list
MaxClock == 2          \* wall-clock seconds that may pass during a run
MaxStrLen == 3         \* longest enumerated input of sanitize_query

\* ------------------------------------------------------------- constants
NO_DATA == "No data available for the specified time range."

PROMETHEUS_QUERY_API == "/api/v1/query"

\* ---------------------------------------------------------------- inputs
Chars == {"a", ":", ".", "_"}

\* The queries a playbook may pass: plain, with ':' , with '.', colliding.
QuerySet ==
  { <<"u", "p">>, <<"a", ":", "b">>, <<"a", ".", "b">>, <<"a", "_", "b">> }

RECURSIVE SeqsUpTo(_, _)
SeqsUpTo(S, n) ==
  IF n = 0 THEN {<<>>}
  ELSE LET shorter == SeqsUpTo(S, n - 1)
       IN  shorter \cup {Append(s, c) : s \in shorter, c \in S}

QueryLists == SeqsUpTo(QuerySet, MaxQueries)

\* The example of the documentation, "rate(http:req.total[5m])".
ExampleQuery ==
  << "r","a","t","e","(","h","t","t","p",":","r","e","q",".","t","o","t","a","l",
     "[","5","m","]",")" >>

ExampleKey ==
  << "r","a","t","e","(","h","t","t","p","_","r","e","q","_","t","o","t","a","l",
     "[","5","m","]",")" >>

SanitizeInputs == SeqsUpTo(Chars, MaxStrLen) \cup {ExampleQuery}

\* -------------------------------------------------------- str.replace
\* str.replace(old, new) for one-character old and new: every occurrence.
Replace(s, old, new) ==
  [k \in 1..Len(s) |-> IF s[k] = old THEN new ELSE s[k]]

sanitize_query_colon_only(query) == Replace(query, ":", "_")

sanitize_query(query) == Replace(Replace(query, ":", "_"), ".", "_")

\* ------------------------------------------------------------- float()
Digits == {"0", "1", "2", "5"}

DigitVal(c) == CASE c = "0" -> 0 [] c = "1" -> 1 [] c = "2" -> 2 [] c = "5" -> 5

IsDigits(s) == Len(s) > 0 /\ \A k \in 1..Len(s) : s[k] \in Digits

RECURSIVE IntOf(_)
IntOf(s) == IF Len(s) = 0 THEN 0
            ELSE 10 * IntOf(SubSeq(s, 1, Len(s) - 1)) + DigitVal(s[Len(s)])

\* The literals float() accepts among the modelled samples: digits, or
\* digits '.' digit.
IsFloatLiteral(s) ==
  \/ IsDigits(s)
  \/ /\ Len(s) >= 3
     /\ s[Len(s) - 1] = "."
     /\ IsDigits(SubSeq(s, 1, Len(s) - 2))
     /\ s[Len(s)] \in Digits

\* float(s) in tenths.
float(s) ==
  IF IsDigits(s) THEN 10 * IntOf(s)
  ELSE 10 * IntOf(SubSeq(s, 1, Len(s) - 2)) + DigitVal(s[Len(s)])

\* ----------------------------------------------------- server responses
\* What requests.get meets: a transport failure, or a response with a
\* status and a body.  The body is described along the path
\* data -> result -> [0] -> value -> [1] that the code walks.
Resp(net, status, json, data, result, nresults, value, nvalue, sample) ==
  [ net |-> net, status |-> status, json |-> json, data |-> data,
    result |-> result, nresults |-> nresults, value |-> value,
    nvalue |-> nvalue, sample |-> sample ]

Found(sample) == Resp("ok", 200, TRUE, "object", "list", 1, "list", 2, sample)

EmptyResult == Resp("ok", 200, TRUE, "object", "list", 0, "missing", 0, <<>>)

FoundResponses ==
  { Found(<<"0">>), Found(<<"1">>), Found(<<"2", ".", "5">>) }

AbsentResponses ==
  { EmptyResult,
    Resp("ok", 200, TRUE, "missing", "missing", 0, "missing", 0, <<>>),
    Resp("ok", 200, TRUE, "object", "missing", 0, "missing", 0, <<>>) }

FailingResponses ==
  { Resp("ConnectionError", 0, FALSE, "missing", "missing", 0, "missing", 0, <<>>),
    Resp("Timeout", 0, FALSE, "missing", "missing", 0, "missing", 0, <<>>),
    Resp("ok", 500, TRUE, "object", "list", 0, "missing", 0, <<>>),
    Resp("ok", 200, FALSE, "missing", "missing", 0, "missing", 0, <<>>),
    Resp("ok", 200, TRUE, "null", "missing", 0, "missing", 0, <<>>),
    Resp("ok", 200, TRUE, "object", "list", 1, "missing", 0, <<>>),
    Resp("ok", 200, TRUE, "object", "list", 1, "list", 1, <<>>),
    Resp("ok", 200, TRUE, "object", "list", 1, "list", 2, <<"a">>) }

Responses == FoundResponses \cup AbsentResponses \cup FailingResponses

\* --------------------------------------------- fetch_latest_metric_value
Return(is_none, num) ==
  [raised |-> FALSE, exc |-> "", msg |-> "", is_none |-> is_none, num |-> num]

Raise(exc, msg) ==
  [raised |-> TRUE, exc |-> exc, msg |-> msg, is_none |-> FALSE, num |-> 0]

\* params and URL of the GET.
RequestOf_now(q, t, url) ==
  [url |-> <<url, PROMETHEUS_QUERY_API>>, query |-> q, time |-> clock]

RequestOf(q, t, url) ==
  [url |-> <<url, PROMETHEUS_QUERY_API>>, query |-> q, time |-> t]

\* A first result without 'value', or with a short one, read as "no data".
fetch_latest_metric_value_lenient(response) ==
  IF response.net # "ok" THEN Raise(response.net, response.net)
  ELSE IF response.status >= 400 THEN Raise("HTTPError", "Error for url")
  ELSE IF ~response.json THEN Raise("JSONDecodeError", "Expecting value")
  ELSE IF response.data = "null"
    THEN Raise("AttributeError", "'NoneType' object has no attribute 'get'")
  ELSE
    LET metric_data_len ==
          IF response.data = "missing" \/ response.result # "list"
          THEN 0 ELSE response.nresults
    IN  IF metric_data_len > 0 /\ response.value = "list" /\ response.nvalue >= 2
        THEN IF IsFloatLiteral(response.sample)
             THEN Return(FALSE, float(response.sample))
             ELSE Raise("ValueError", "could not convert string to float")
        ELSE Return(TRUE, 0)

\* What the call returns or raises once requests.get has met `response`.
fetch_latest_metric_value(response) ==
  IF response.net # "ok" THEN Raise(response.net, response.net)
  ELSE IF response.status >= 400 THEN Raise("HTTPError", "Error for url")
  ELSE IF ~response.json THEN Raise("JSONDecodeError", "Expecting value")
  ELSE IF response.data = "null"
    THEN Raise("AttributeError", "'NoneType' object has no attribute 'get'")
  ELSE
    LET metric_data_len ==
          IF response.data = "missing" \/ response.result # "list"
          THEN 0 ELSE response.nresults
    IN  IF metric_data_len > 0
        THEN IF response.value = "missing" THEN Raise("KeyError", "'value'")
             ELSE IF response.nvalue < 2
               THEN Raise("IndexError", "list index out of range")
             ELSE IF ~IsFloatLiteral(response.sample)
               THEN Raise("ValueError", "could not convert string to float")
             ELSE Return(FALSE, float(response.sample))
        ELSE Return(TRUE, 0)

\* ----------------------------------------------------------------- main
EmptyDict == <<>>

FloatValue(n) == [float |-> TRUE, num |-> n, str |-> ""]

StrValue(str) == [float |-> FALSE, num |-> 0, str |-> str]

\* d[key] = value, keeping an entry that is already there.
DictSet_setdefault(d, key, value) ==
  [k \in DOMAIN d \cup {key} |-> IF k \in DOMAIN d THEN d[k] ELSE value]

\* d[key] = value
DictSet(d, key, value) ==
  [k \in DOMAIN d \cup {key} |-> IF k = key THEN value ELSE d[k]]

KeyFor_sanitized(query, latest_value) == sanitize_query(query)

\* key = sanitize_query(query) if latest_value is not None else query
KeyFor(query, latest_value) ==
  IF ~latest_value.is_none THEN sanitize_query(query) ELSE query

\* The test written as `if latest_value`: 0.0 is falsy.
ValueFor_truthy(latest_value) ==
  IF ~latest_value.is_none /\ latest_value.num # 0
  THEN FloatValue(latest_value.num) ELSE StrValue(NO_DATA)

\* latest_value if latest_value is not None else "No data ..."
ValueFor(latest_value) ==
  IF ~latest_value.is_none THEN FloatValue(latest_value.num)
  ELSE StrValue(NO_DATA)

StoreResult_drop_absent(d, query, latest_value) ==
  IF latest_value.is_none THEN d
  ELSE DictSet(d, KeyFor(query, latest_value), ValueFor(latest_value))

\* The two assignments of the loop body.
StoreResult(d, query, latest_value) ==
  DictSet(d, KeyFor(query, latest_value), ValueFor(latest_value))

QueryAt_reversed(qs, k) == qs[Len(qs) - k]

\* The query the for loop hands out at position k.
QueryAt(qs, k) == qs[k + 1]

\* A fail_json that returns to its caller: the loop goes on.
fail_json_returns(msg) ==
  /\ fail_json_calls' = Append(fail_json_calls, [msg |-> msg])
  /\ pc' = "loop"
  /\ i' = i + 1

\* module.fail_json(msg=...): reports the failure and exits the process.
fail_json(msg) ==
  /\ fail_json_calls' = Append(fail_json_calls, [msg |-> msg])
  /\ pc' = "failed"
  /\ i' = i

\* An except clause that skips the failing query.
except_Exception_skip(e) ==
  /\ fail_json_calls' = fail_json_calls
  /\ pc' = "loop"
  /\ i' = i + 1

\* except Exception as e: module.fail_json(msg=str(e))
except_Exception(e) == fail_json(e.msg)

\* current_time = int(time.time()); end_time = current_time; metrics_data = {}
Start ==
  /\ pc = "start"
  /\ end_time' = clock
  /\ metrics_data' = EmptyDict
  /\ pc' = "loop"
  /\ UNCHANGED << prometheus_url, queries, i, clock, sent, received,
                  exit_json_calls, fail_json_calls, san_arg, san_ret >>

\* Wall-clock time passes while main() runs.
Tick ==
  /\ pc \in {"start", "loop", "wait"}
  /\ clock < MaxClock
  /\ clock' = clock + 1
  /\ UNCHANGED << prometheus_url, queries, pc, i, end_time, metrics_data, sent,
                  received, exit_json_calls, fail_json_calls, san_arg, san_ret >>

\* The next iteration enters fetch_latest_metric_value and issues its GET.
SendRequest ==
  /\ pc = "loop"
  /\ i < Len(queries)
  /\ sent' = Append(sent, RequestOf(QueryAt(queries, i), end_time, prometheus_url))
  /\ pc' = "wait"
  /\ UNCHANGED << prometheus_url, queries, i, clock, end_time, metrics_data,
                  received, exit_json_calls, fail_json_calls, san_arg, san_ret >>

\* requests.get returns or raises; the rest of the loop body runs.
Respond(response) ==
  /\ pc = "wait"
  /\ received' = Append(received, response)
  /\ LET latest_value == fetch_latest_metric_value(response)
     IN  IF latest_value.raised
         THEN /\ except_Exception(latest_value)
              /\ UNCHANGED metrics_data
         ELSE /\ metrics_data' =
                   StoreResult(metrics_data, QueryAt(queries, i), latest_value)
              /\ i' = i + 1
              /\ pc' = "loop"
              /\ UNCHANGED fail_json_calls
  /\ UNCHANGED << prometheus_url, queries, clock, end_time, sent,
                  exit_json_calls, san_arg, san_ret >>

\* module.exit_json(changed=False, metrics_data=metrics_data)
ExitJson ==
  /\ pc = "loop"
  /\ i = Len(queries)
  /\ exit_json_calls' =
       Append(exit_json_calls, [changed |-> FALSE, metrics_data |-> metrics_data])
  /\ pc' = "succeeded"
  /\ UNCHANGED << prometheus_url, queries, i, clock, end_time, metrics_data,
                  sent, received, fail_json_calls, san_arg, san_ret >>

Init ==
  /\ prometheus_url = "http://prometheus-server:9090"
  /\ queries \in QueryLists
  /\ pc = "start"
  /\ i = 0
  /\ clock = 0
  /\ end_time = 0
  /\ metrics_data = EmptyDict
  /\ sent = <<>>
  /\ received = <<>>
  /\ exit_json_calls = <<>>
  /\ fail_json_calls = <<>>
  /\ san_arg = <<>>
  /\ san_ret = <<>>

Next ==
  \/ Start
  \/ Tick
  \/ SendRequest
  \/ \E response \in Responses : Respond(response)
  \/ ExitJson

Spec == Init /\ [][Next]_vars

\* Sequential code runs on; every GET returns or raises.
FairSpec ==
  /\ Spec
  /\ WF_vars(Start)
  /\ WF_vars(SendRequest)
  /\ WF_vars(\E response \in Responses : Respond(response))
  /\ WF_vars(ExitJson)

\* ------------------------------------------- sanitize_query on its own
SanInit ==
  /\ prometheus_url = ""
  /\ queries = <<>>
  /\ pc = "sanitize"
  /\ i = 0
  /\ clock = 0
  /\ end_time = 0
  /\ metrics_data = EmptyDict
  /\ sent = <<>>
  /\ received = <<>>
  /\ exit_json_calls = <<>>
  /\ fail_json_calls = <<>>
  /\ san_arg \in SanitizeInputs
  /\ san_ret = <<>>

SanitizeCall ==
  /\ pc = "sanitize"
  /\ san_ret = <<>>
  /\ san_ret' = <<sanitize_query(san_arg)>>
  /\ UNCHANGED << prometheus_url, queries, pc, i, clock, end_time, metrics_data,
                  sent, received, exit_json_calls, fail_json_calls, san_arg >>

SanSpec == SanInit /\ [][SanitizeCall]_vars

\* ================================================================ claims
Running == pc \in {"start", "loop", "wait"}

Terminal == pc \in {"succeeded", "failed"}

\* The mapping a successful invocation reports.
Reported == exit_json_calls[1].metrics_data

\* The response carries a non-empty data.result array.
NonEmptyResult(r) ==
  /\ r.net = "ok" /\ r.status < 400 /\ r.json
  /\ r.data = "object" /\ r.result = "list" /\ r.nresults > 0

\* The response carries an empty data.result array.
HasEmptyResult(r) ==
  /\ r.net = "ok" /\ r.status < 400 /\ r.json
  /\ r.data = "object" /\ r.result = "list" /\ r.nresults = 0

\* A connection error, a timeout or an HTTP error status.
TransportError(r) == r.net # "ok" \/ r.status >= 400

\* A successful response whose JSON lacks `data` or `result`.
LacksDataOrResult(r) ==
  /\ r.net = "ok" /\ r.status < 400 /\ r.json
  /\ (r.data = "missing" \/ (r.data = "object" /\ r.result = "missing"))

\* A successful response whose first result lacks `value` or has a short one.
LacksValue(r) ==
  /\ NonEmptyResult(r)
  /\ (r.value = "missing" \/ r.nvalue < 2)

\* The key the query at position k (1-based) is stored under in a run
\* without error: sanitized when data came back, raw otherwise.
WrittenKey(k) ==
  IF NonEmptyResult(received[k]) THEN sanitize_query(queries[k]) ELSE queries[k]

OverwrittenLater(k, key) ==
  \E j \in (k + 1)..Len(queries) : WrittenKey(j) = key

Positions == 1..Len(queries)

\* C1: in a successful invocation every query answered with a non-empty
\* result array (a sample of 0 included) has the key sanitize_query(q) in
\* metrics_data, and unless a later query writes that key its value is the
\* number float(result[0].value[1]), never the "No data" string.
C1_FoundKeyAndValue ==
  pc = "succeeded" =>
    \A k \in Positions :
      NonEmptyResult(received[k]) =>
        LET key == sanitize_query(queries[k])
        IN  /\ key \in DOMAIN Reported
            /\ ~OverwrittenLater(k, key) =>
                 /\ Reported[key].float
                 /\ Reported[key].num = float(received[k].sample)
                 /\ Reported[key].str # NO_DATA

C1_Witness ==
  /\ pc = "succeeded"
  /\ queries = << <<"a", ":", "b">>, <<"u", "p">> >>
  /\ received[1] = Found(<<"0">>)
  /\ received[2] = Found(<<"2", ".", "5">>)
  /\ Reported[<<"a", "_", "b">>] = [float |-> TRUE, num |-> 0, str |-> ""]
  /\ Reported[<<"u", "p">>].num = 25

\* C2: in a successful invocation every query answered with an empty
\* result array has its own, unsanitized string as a key of metrics_data,
\* and unless a later query writes that key its value is the "No data"
\* string.
C2_AbsentKeyAndValue ==
  pc = "succeeded" =>
    \A k \in Positions :
      HasEmptyResult(received[k]) =>
        LET key == queries[k]
        IN  /\ key \in DOMAIN Reported
            /\ ~OverwrittenLater(k, key) =>
                 /\ ~Reported[key].float
                 /\ Reported[key].str =
                      "No data available for the specified time range."

C2_Witness ==
  /\ pc = "succeeded"
  /\ queries = << <<"a", ":", "b">>, <<"a", ".", "b">> >>
  /\ received[1] = EmptyResult
  /\ received[2] = EmptyResult
  /\ DOMAIN Reported = { <<"a", ":", "b">>, <<"a", ".", "b">> }
  /\ Reported[<<"a", ":", "b">>].str = NO_DATA

\* C3: fail-fast: once the fetch of any query has met a connection error,
\* a timeout or an HTTP error status, the invocation has reported failure
\* through fail_json with that error's message, and exit_json is never
\* called, whatever the earlier queries returned.
C3_FailFast ==
  \A k \in 1..Len(received) :
    TransportError(received[k]) =>
      /\ pc = "failed"
      /\ fail_json_calls = << [msg |-> fetch_latest_metric_value(received[k]).msg] >>
      /\ exit_json_calls = <<>>

C3_Witness ==
  /\ pc = "failed"
  /\ Len(received) = 2
  /\ received[1] = Found(<<"1">>)
  /\ received[2].status = 500
  /\ metrics_data # EmptyDict
  /\ exit_json_calls = <<>>
  /\ Len(fail_json_calls) = 1

\* C4: a successful invocation on a non-empty list of N queries whose
\* sanitized forms are pairwise distinct reports exactly N entries,
\* whatever mix of found and absent results came back.
C4_OneEntryPerQuery ==
  ( /\ pc = "succeeded"
    /\ Len(queries) >= 1
    /\ \A j, k \in Positions :
         j # k => sanitize_query(queries[j]) # sanitize_query(queries[k]) )
  => Cardinality(DOMAIN Reported) = Len(queries)

C4_Witness ==
  /\ pc = "succeeded"
  /\ queries = << <<"a", ":", "b">>, <<"u", "p">> >>
  /\ NonEmptyResult(received[1])
  /\ HasEmptyResult(received[2])
  /\ Cardinality(DOMAIN Reported) = 2

\* C5: every request of one invocation carries the same `time`, the
\* timestamp main() computed before the loop, however much time has passed.
C5_SameTimestamp ==
  \A k \in 1..Len(sent) : sent[k].time = end_time /\ sent[k].time = sent[1].time

C5_Witness ==
  /\ Len(sent) = 2
  /\ end_time = 0
  /\ clock = MaxClock
  /\ sent[1].time = 0
  /\ sent[2].time = 0

\* C6: sanitize_query(q) has the length of q, '_' wherever q has ':' or
\* '.', and q's own character everywhere else; the documented example maps
\* to "rate(http_req_total[5m])".
C6_Sanitize ==
  (pc = "sanitize" /\ san_ret # <<>>) =>
    LET out == san_ret[1]
    IN  /\ Len(out) = Len(san_arg)
        /\ \A k \in 1..Len(san_arg) :
             IF san_arg[k] \in {":", "."} THEN out[k] = "_"
             ELSE out[k] = san_arg[k]
        /\ \A k \in 1..Len(out) : out[k] \notin {":", "."}
        /\ san_arg = ExampleQuery => out = ExampleKey

C6_Witness ==
  /\ pc = "sanitize"
  /\ san_arg = << ".", "a", ":" >>
  /\ san_ret = << << "_", "a", "_" >> >>

\* C7: every invocation leaves Running and ends in exactly one terminal
\* state reported exactly once: Succeeded (exit_json, changed false, the
\* mapping) iff every query was processed without error, else Failed
\* (fail_json with a message); nothing happens after a terminal state.
C7_StateInv ==
  /\ Running => (exit_json_calls = <<>> /\ fail_json_calls = <<>>)
  /\ pc = "succeeded" =>
       /\ exit_json_calls = << [changed |-> FALSE, metrics_data |-> metrics_data] >>
       /\ fail_json_calls = <<>>
       /\ Len(received) = Len(queries)
       /\ \A k \in Positions : ~fetch_latest_metric_value(received[k]).raised
  /\ pc = "failed" =>
       /\ Len(fail_json_calls) = 1
       /\ exit_json_calls = <<>>
       /\ \E k \in 1..Len(received) : fetch_latest_metric_value(received[k]).raised

WrittenValue(k) ==
  IF NonEmptyResult(received[k])
  THEN [float |-> TRUE, num |-> float(received[k].sample), str |-> ""]
  ELSE [float |-> FALSE, num |-> 0,
        str |-> "No data available for the specified time range."]

\* Two distinct queries with one sanitized form.
Collide(j, k) ==
  /\ j < k
  /\ queries[j] # queries[k]
  /\ sanitize_query(queries[j]) = sanitize_query(queries[k])

\* The entries of the reported mapping that stem from the form of query k.
EntriesOfForm(k) ==
  {key \in DOMAIN Reported : sanitize_query(key) = sanitize_query(queries[k])}

\* C8 as stated: two distinct queries with the same sanitized form leave
\* a single entry, carrying the later query's result, for every
\* combination of found and absent outcomes.
C8_Original ==
  pc = "succeeded" =>
    \A j, k \in Positions :
      ( /\ Collide(j, k)
        /\ \A l \in Positions \ {j, k} :
             sanitize_query(queries[l]) # sanitize_query(queries[k]) )
      => /\ Cardinality(EntriesOfForm(k)) = 1
         /\ \A key \in EntriesOfForm(k) : Reported[key] = WrittenValue(k)

\* C8 amended: of two distinct queries with the same sanitized form, the
\* later overwrites the earlier exactly when both are stored under the
\* same key (sanitized when found, raw when absent), as when both return
\* data; otherwise the mapping holds one entry for each.
C8_CollisionPolicy ==
  pc = "succeeded" =>
    \A j, k \in Positions :
      Collide(j, k) =>
        /\ (NonEmptyResult(received[j]) /\ NonEmptyResult(received[k]))
             => WrittenKey(j) = WrittenKey(k)
        /\ WrittenKey(j) = WrittenKey(k) =>
             (~OverwrittenLater(k, WrittenKey(k))
                => Reported[WrittenKey(k)] = WrittenValue(k))
        /\ WrittenKey(j) # WrittenKey(k) =>
             {WrittenKey(j), WrittenKey(k)} \subseteq DOMAIN Reported

C8_Witness ==
  /\ pc = "succeeded"
  /\ queries = << <<"a", ":", "b">>, <<"a", ".", "b">> >>
  /\ received[1] = Found(<<"1">>)
  /\ received[2] = Found(<<"2", ".", "5">>)
  /\ DOMAIN Reported = { <<"a", "_", "b">> }
  /\ Reported[<<"a", "_", "b">>].num = 25

\* C9 as stated: a successful response whose JSON lacks `data`, `result`,
\* the first result's `value`, or the second element of `value` aborts
\* the batch with a failure report.
C9_Original ==
  \A k \in 1..Len(received) :
    (LacksDataOrResult(received[k]) \/ LacksValue(received[k])) =>
      /\ pc = "failed"
      /\ Len(fail_json_calls) = 1
      /\ exit_json_calls = <<>>

\* C9 amended: a first result without `value`, or with a `value` of fewer
\* than two elements, aborts the batch with a failure report and is never
\* stored; a body without `data` or without `result` is read as an empty
\* result: the query is stored under its raw string with the "No data"
\* string and the batch goes on.
C9_MalformedResponse ==
  \A k \in 1..Len(received) :
    /\ LacksValue(received[k]) =>
         /\ pc = "failed"
         /\ k = Len(received)
         /\ fail_json_calls = << [msg |-> fetch_latest_metric_value(received[k]).msg] >>
         /\ exit_json_calls = <<>>
    /\ LacksDataOrResult(received[k]) =>
         /\ pc = "failed" => k < Len(received)
         /\ i >= k
         /\ queries[k] \in DOMAIN metrics_data
         /\ (\A j \in (k + 1)..i : WrittenKey(j) # queries[k])
              => metrics_data[queries[k]] =
                   [float |-> FALSE, num |-> 0,
                    str |-> "No data available for the specified time range."]

C9_Witness ==
  /\ pc = "failed"
  /\ queries = << <<"a", ":", "b">>, <<"u", "p">> >>
  /\ Len(received) = 2
  /\ received[1].data = "missing"
  /\ LacksValue(received[2])
  /\ received[2].value = "missing"
  /\ DOMAIN metrics_data = { <<"a", ":", "b">> }
  /\ fail_json_calls = << [msg |-> "'value'"] >>

\* C10: requests go out one at a time in list order, one per position
\* and never again for a position; when position k (0-based) is the first
\* to fail exactly k+1 requests were issued and none follows; when none
\* fails exactly N were issued.
C10_RequestSequencing ==
  /\ Len(sent) <= Len(queries)
  /\ \A k \in 1..Len(sent) : sent[k].query = queries[k]
  /\ Len(received) <= Len(sent)
  /\ Len(sent) <= Len(received) + 1
  /\ Len(sent) = Len(received) + 1 <=> pc = "wait"
  /\ \A k \in 1..Len(received) :
       fetch_latest_metric_value(received[k]).raised =>
         Len(sent) = k /\ Len(received) = k
  /\ pc = "succeeded" => Len(sent) = Len(queries)

C10_Witness ==
  /\ pc = "failed"
  /\ queries = << <<"a", ":", "b">>, <<"u", "p">> >>
  /\ Len(sent) = 1
  /\ sent[1].query = <<"a", ":", "b">>
  /\ TransportError(received[1])

====
